---- MODULE Spec2Model ----
(***************************************************************************)
(* ECAS auto-harvest downloader (src/app/main.py).                         *)
(*                                                                         *)
(* Python strings are modelled as sequences of one-character strings, so   *)
(* that sanitising, splitting, matching and joining are computed           *)
(* character by character, as the code does.  Characters are ASCII.        *)
(***************************************************************************)
EXTENDS Integers, Sequences, FiniteSets, TLC

VARIABLES
    pc,              \* position of main() / of the function it is in
    date_range,      \* main: <<start_date, end_date>>
    months_checked,  \* iterate_hearings_collect_anums: loop counter
    cells,           \* cells of the current calendar page not yet visited
    a_numbers,       \* iterate_hearings_collect_anums: the running set
    popups,          \* history: the popups whose text the traversal has read
    advances,        \* history: successful clicks of the "next" control
    stop,            \* history: why the month loop ended
    cell_error,      \* history: where the cell visited last raised, if it did
    anums,           \* main: the list iterate_hearings_collect_anums returned
    caseIdx,         \* main: index in anums of the case being harvested
    rows,            \* download_case_docs: number of rows of the open case
    rowIdx,          \* download_case_docs: index of the row being processed
    cur,             \* download_case_docs: label and file_date of that row
    before,          \* download_case_docs: names snapshotted before the click
    dir,             \* the output directory: the files in it
    inflight,        \* downloads the browser has started and not yet written
    log_rows,        \* main: the accumulated LogRecords
    warnings,        \* the "[WARN] Row error" lines printed, as (case, row)
    outcomes,        \* history: how each row visited so far ended
    report,          \* what was handed to the report writer (df.to_excel)
    fn_pc,           \* pure-function harness: which function is applied
    fn_arg,          \* pure-function harness: the argument(s)
    fn_ret           \* pure-function harness: the value returned

vars == <<pc, date_range, months_checked, cells, a_numbers, popups, advances, stop,
          cell_error, anums,
          caseIdx, rows, rowIdx, cur, before, dir, inflight, log_rows,
          warnings, outcomes, report, fn_pc, fn_arg, fn_ret>>

calVars == <<months_checked, cells, a_numbers, popups, advances, stop, cell_error>>
caseVars == <<caseIdx, rows, rowIdx, cur, before, dir, inflight, log_rows,
              warnings, outcomes>>
fnVars == <<fn_pc, fn_arg, fn_ret>>

-----------------------------------------------------------------------------
(* Characters and strings                                                  *)

\* [0-9]
Digits == {"0", "1", "2", "3", "4", "5", "6", "7", "8", "9"}

\* A decimal digit outside ASCII: ARABIC-INDIC DIGIT THREE, one character.
ArabicIndicThree == "U+0663"

\* regex \d on a str pattern: any Unicode decimal digit
DecimalDigits == Digits \cup {ArabicIndicThree}

UpperLetters ==
    {"A", "B", "C", "D", "E", "F", "G", "H", "I", "J", "K", "L", "M",
     "N", "O", "P", "Q", "R", "S", "T", "U", "V", "W", "X", "Y", "Z"}

LowerLetters ==
    {"a", "b", "c", "d", "e", "f", "g", "h", "i", "j", "k", "l", "m",
     "n", "o", "p", "q", "r", "s", "t", "u", "v", "w", "x", "y", "z"}

\* str.isalpha / str.isupper on one character
isalpha(c) == c \in UpperLetters \cup LowerLetters
isupper(c) == c \in UpperLetters

\* regex \s and \w on one character
IsSpace(c) == c \in {" ", "\t", "\n", "\r"}
IsWordChar(c) == isalpha(c) \/ c \in DecimalDigits \/ c = "_"

UpperOf ==
    [c \in LowerLetters |->
        CASE c = "a" -> "A" [] c = "b" -> "B" [] c = "c" -> "C" [] c = "d" -> "D"
          [] c = "e" -> "E" [] c = "f" -> "F" [] c = "g" -> "G" [] c = "h" -> "H"
          [] c = "i" -> "I" [] c = "j" -> "J" [] c = "k" -> "K" [] c = "l" -> "L"
          [] c = "m" -> "M" [] c = "n" -> "N" [] c = "o" -> "O" [] c = "p" -> "P"
          [] c = "q" -> "Q" [] c = "r" -> "R" [] c = "s" -> "S" [] c = "t" -> "T"
          [] c = "u" -> "U" [] c = "v" -> "V" [] c = "w" -> "W" [] c = "x" -> "X"
          [] c = "y" -> "Y" [] c = "z" -> "Z"]

\* str.upper
upper(s) == [i \in 1..Len(s) |-> IF s[i] \in LowerLetters THEN UpperOf[s[i]] ELSE s[i]]

\* int() of one digit
DigitVal ==
    [c \in DecimalDigits |->
        CASE c = "0" -> 0 [] c = "1" -> 1 [] c = "2" -> 2 [] c = "3" -> 3
          [] c = "4" -> 4 [] c = "5" -> 5 [] c = "6" -> 6 [] c = "7" -> 7
          [] c = "8" -> 8 [] c = "9" -> 9 [] c = ArabicIndicThree -> 3]

\* the printable ASCII characters in code-point order: chr(32)..chr(95),
\* and chr(97)..chr(126) (chr(96), the grave accent, is left out)
AsciiTo95 ==
    <<
      " ", "!", "\"", "#", "$", "%", "&", "'", "(", ")", "*", "+",
      ",", "-", ".", "/", "0", "1", "2", "3", "4", "5", "6", "7",
      "8", "9", ":", ";", "<", "=", ">", "?", "@", "A", "B", "C",
      "D", "E", "F", "G", "H", "I", "J", "K", "L", "M", "N", "O",
      "P", "Q", "R", "S", "T", "U", "V", "W", "X", "Y", "Z", "[",
      "\\", "]", "^", "_"
    >>

AsciiFrom97 ==
    <<
      "a", "b", "c", "d", "e", "f", "g", "h", "i", "j", "k", "l",
      "m", "n", "o", "p", "q", "r", "s", "t", "u", "v", "w", "x",
      "y", "z", "{", "|", "}", "~"
    >>

\* ord(c)
ord(c) ==
    IF \E i \in 1..Len(AsciiTo95) : AsciiTo95[i] = c
    THEN 31 + (CHOOSE i \in 1..Len(AsciiTo95) : AsciiTo95[i] = c)
    ELSE 96 + (CHOOSE i \in 1..Len(AsciiFrom97) : AsciiFrom97[i] = c)

\* a < b for strings: by code point, a proper prefix first
RECURSIVE StrLess(_, _)
StrLess(a, b) ==
    IF b = <<>> THEN FALSE
    ELSE IF a = <<>> THEN TRUE
    ELSE IF Head(a) = Head(b) THEN StrLess(Tail(a), Tail(b))
    ELSE ord(Head(a)) < ord(Head(b))

\* The list in descending order.
RECURSIVE sorted_descending(_)
sorted_descending(S) ==
    IF S = {} THEN <<>>
    ELSE LET hi == CHOOSE a \in S : \A b \in S \ {a} : StrLess(b, a)
         IN  <<hi>> \o sorted_descending(S \ {hi})

\* sorted(S) for a set of strings
RECURSIVE sorted(_)
sorted(S) ==
    IF S = {} THEN <<>>
    ELSE LET lo == CHOOSE a \in S : \A b \in S \ {a} : StrLess(a, b)
         IN  <<lo>> \o sorted(S \ {lo})

Range(f) == {f[i] : i \in DOMAIN f}

\* s[i:j] of Python, 1-based and inclusive here; empty when j < i
Slice(s, i, j) == IF j < i THEN <<>> ELSE SubSeq(s, i, j)

\* needle occurs in s starting at position i
OccursAt(needle, s, i) ==
    /\ i >= 1
    /\ i + Len(needle) - 1 <= Len(s)
    /\ \A k \in 1..Len(needle) : s[i + k - 1] = needle[k]

\* the "in" operator on strings
Contains(s, needle) == \E i \in 1..(Len(s) + 1) : OccursAt(needle, s, i)

\* str.strip
strip(s) ==
    LET keep == {i \in 1..Len(s) : ~IsSpace(s[i])}
    IN  IF keep = {} THEN <<>>
        ELSE LET lo == CHOOSE i \in keep : \A j \in keep : i <= j
                 hi == CHOOSE i \in keep : \A j \in keep : j <= i
             IN  SubSeq(s, lo, hi)

\* str.splitlines, for the line break "\n": the lines of s from position i on
RECURSIVE SplitFrom(_, _)
SplitFrom(s, i) ==
    IF i > Len(s) THEN <<>>
    ELSE LET nl == {j \in i..Len(s) : s[j] = "\n"}
         IN  IF nl = {} THEN <<SubSeq(s, i, Len(s))>>
             ELSE LET p == CHOOSE j \in nl : \A k \in nl : j <= k
                  IN  <<Slice(s, i, p - 1)>> \o SplitFrom(s, p + 1)

splitlines(s) == SplitFrom(s, 1)

\* sep.join(parts)
RECURSIVE join(_, _)
join(sep, parts) ==
    IF parts = <<>> THEN <<>>
    ELSE IF Len(parts) = 1 THEN parts[1]
    ELSE parts[1] \o sep \o join(sep, Tail(parts))

-----------------------------------------------------------------------------
(* sanitize                                                                *)

\* the chained str.replace calls of sanitize, on one character
ReplaceChar(c) ==
    CASE c = "/" -> <<"-">>
      [] c = "\\" -> <<"-">>
      [] c = ":" -> <<" ", "-", " ">>
      [] c = "*" -> <<>>
      [] c = "?" -> <<>>
      [] c = "\"" -> <<"'">>
      [] c = "<" -> <<"(">>
      [] c = ">" -> <<")">>
      [] c = "|" -> <<"-">>
      [] OTHER -> <<c>>

RECURSIVE ReplaceAll(_)
ReplaceAll(s) ==
    IF s = <<>> THEN <<>> ELSE ReplaceChar(Head(s)) \o ReplaceAll(Tail(s))

\* re.sub(r"\s+", " ", s): every run of whitespace becomes one space
CollapseSpaces(s) ==
    LET keep == {i \in 1..Len(s) : ~IsSpace(s[i]) \/ i = 1 \/ ~IsSpace(s[i - 1])}
        nth(k) == CHOOSE i \in keep : Cardinality({j \in keep : j < i}) = k - 1
    IN  [k \in 1..Cardinality(keep) |->
            IF IsSpace(s[nth(k)]) THEN " " ELSE s[nth(k)]]

sanitize(s) ==
    IF s = <<>> THEN <<>> ELSE strip(CollapseSpaces(ReplaceAll(s)))

-----------------------------------------------------------------------------
(* guess_pleading_name_from_text                                           *)

Keywords ==
    {<<"M","O","T","I","O","N">>, <<"O","R","D","E","R">>,
     <<"N","O","T","I","C","E">>, <<"E","V","I","D","E","N","C","E">>,
     <<"A","P","P","L","I","C","A","T","I","O","N">>, <<"B","R","I","E","F">>,
     <<"D","E","C","L","A","R","A","T","I","O","N">>,
     <<"E","X","H","I","B","I","T">>,
     <<"S","U","B","M","I","S","S","I","O","N">>}

\* re.search(r"\b(MOTION|...|SUBMISSION)\b", ln, re.I)
HasKeyword(ln) ==
    LET u == upper(ln)
    IN  \E kw \in Keywords : \E i \in 1..Len(ln) :
            /\ OccursAt(kw, u, i)
            /\ (i = 1 \/ ~IsWordChar(ln[i - 1]))
            /\ (i + Len(kw) - 1 = Len(ln) \/ ~IsWordChar(ln[i + Len(kw)]))

\* lines[:60]
MaxLinesScanned == 60

\* len(ln) < 8
MinLineLen == 8

\* Scores are exact fractions <<numerator, denominator>>:
\* upper_ratio + kw_bonus = uppers/letters + 15/100.
ScoreOf(ln) ==
    LET letters == {i \in 1..Len(ln) : isalpha(ln[i])}
        uppers == {i \in letters : isupper(ln[i])}
        kw == IF HasKeyword(ln) THEN 15 ELSE 0
    IN  <<100 * Cardinality(uppers) + kw * Cardinality(letters),
          100 * Cardinality(letters)>>

\* score > best_score
ScoreGreater(a, b) == a[1] * b[2] > b[1] * a[2]

\* the checks that make the loop "continue" before scoring a line
Qualifies(ln) == Len(ln) >= MinLineLen /\ \E i \in 1..Len(ln) : isalpha(ln[i])

\* best_score = 0.0
InitialBestScore == <<0, 1>>

RECURSIVE GuessLoop(_, _, _, _)
GuessLoop(lines, i, candidate, best_score) ==
    IF i > Len(lines) THEN candidate
    ELSE IF ~Qualifies(lines[i]) THEN GuessLoop(lines, i + 1, candidate, best_score)
    ELSE IF ScoreGreater(ScoreOf(lines[i]), best_score)
         THEN GuessLoop(lines, i + 1, lines[i], ScoreOf(lines[i]))
         ELSE GuessLoop(lines, i + 1, candidate, best_score)

\* lines = [ln.strip() for ln in text.splitlines() if ln.strip()]
NonBlankLines(text) ==
    LET all == splitlines(text)
        stripped == [k \in 1..Len(all) |-> strip(all[k])]
    IN  SelectSeq(stripped, LAMBDA ln : ln # <<>>)

FirstLines(lines) ==
    IF Len(lines) <= MaxLinesScanned THEN lines ELSE SubSeq(lines, 1, MaxLinesScanned)

guess_pleading_name_from_text(text) ==
    IF text = <<>> THEN <<>>
    ELSE GuessLoop(FirstLines(NonBlankLines(text)), 1, <<>>, InitialBestScore)


-----------------------------------------------------------------------------
(* datetime.strptime / strftime                                            *)

MonthNames ==
    <<<<"J","A","N","U","A","R","Y">>,
      <<"F","E","B","R","U","A","R","Y">>,
      <<"M","A","R","C","H">>,
      <<"A","P","R","I","L">>,
      <<"M","A","Y">>,
      <<"J","U","N","E">>,
      <<"J","U","L","Y">>,
      <<"A","U","G","U","S","T">>,
      <<"S","E","P","T","E","M","B","E","R">>,
      <<"O","C","T","O","B","E","R">>,
      <<"N","O","V","E","M","B","E","R">>,
      <<"D","E","C","E","M","B","E","R">>>>

\* \d at position i of s
IsDigitAt(s, i) == i >= 1 /\ i <= Len(s) /\ s[i] \in DecimalDigits

\* [0-9] at position i of s
IsAsciiDigitAt(s, i) == i >= 1 /\ i <= Len(s) /\ s[i] \in Digits

\* the number written by the digits s[i..j]
RECURSIVE NumAt(_, _, _)
NumAt(s, i, j) == IF j < i THEN 0 ELSE 10 * NumAt(s, i, j - 1) + DigitVal[s[j]]

\* One directive of a strptime format at position i of s: the set of
\* <<value, next position>> its regular expression can match there.
\*   m: 1[0-2]|0[1-9]|[1-9]     d: 3[0-1]|[1-2]\d|0[1-9]|[1-9]| [1-9]
\*   Y: \d\d\d\d   y: \d\d   b, B: month names, ignoring case
\*   " ": \s+   any other character: itself
DirectiveEnds(item, s, i) ==
    LET two == IsDigitAt(s, i) /\ IsDigitAt(s, i + 1)
        twoM == IsAsciiDigitAt(s, i) /\ IsAsciiDigitAt(s, i + 1)
        twoD == /\ IsAsciiDigitAt(s, i) /\ IsDigitAt(s, i + 1)
                /\ (s[i] \in {"1", "2"} \/ IsAsciiDigitAt(s, i + 1))
        one == IsAsciiDigitAt(s, i) /\ s[i] # "0"
    IN
    CASE item = "m" ->
            (IF twoM /\ NumAt(s, i, i + 1) \in 1..12
                THEN {<<NumAt(s, i, i + 1), i + 2>>} ELSE {})
            \cup (IF one THEN {<<NumAt(s, i, i), i + 1>>} ELSE {})
      [] item = "d" ->
            (IF twoD /\ NumAt(s, i, i + 1) \in 1..31
                THEN {<<NumAt(s, i, i + 1), i + 2>>} ELSE {})
            \cup (IF one THEN {<<NumAt(s, i, i), i + 1>>} ELSE {})
            \cup (IF i <= Len(s) /\ s[i] = " " /\ IsAsciiDigitAt(s, i + 1) /\ s[i + 1] # "0"
                     THEN {<<NumAt(s, i + 1, i + 1), i + 2>>} ELSE {})
      [] item = "Y" ->
            IF \A k \in 0..3 : IsDigitAt(s, i + k)
                THEN {<<NumAt(s, i, i + 3), i + 4>>} ELSE {}
      [] item = "y" ->
            IF two
                THEN {<<(IF NumAt(s, i, i + 1) < 69 THEN 2000 ELSE 1900)
                          + NumAt(s, i, i + 1), i + 2>>}
                ELSE {}
      [] item = "b" ->
            {<<n, i + 3>> : n \in
                {k \in 1..12 : OccursAt(SubSeq(MonthNames[k], 1, 3), upper(s), i)}}
      [] item = "B" ->
            {<<n, i + Len(MonthNames[n])>> : n \in
                {k \in 1..12 : OccursAt(MonthNames[k], upper(s), i)}}
      [] item = " " ->
            {<<0, j>> : j \in
                {k \in (i + 1)..(Len(s) + 1) : \A q \in i..(k - 1) : IsSpace(s[q])}}
      [] OTHER ->
            IF i <= Len(s) /\ s[i] = item THEN {<<0, i + 1>>} ELSE {}

\* Every way the format fmt[k..] matches s[i..] to the end of s, as the
\* <<year, month, day>> read; y, m, d are the fields read so far.
RECURSIVE MatchFormat(_, _, _, _, _, _, _)
MatchFormat(fmt, k, s, i, y, m, d) ==
    IF k > Len(fmt) THEN (IF i = Len(s) + 1 THEN {<<y, m, d>>} ELSE {})
    ELSE UNION {
            MatchFormat(fmt, k + 1, s, e[2],
                        IF fmt[k] \in {"Y", "y"} THEN e[1] ELSE y,
                        IF fmt[k] \in {"m", "b", "B"} THEN e[1] ELSE m,
                        IF fmt[k] = "d" THEN e[1] ELSE d)
            : e \in DirectiveEnds(fmt[k], s, i)}

IsLeap(y) == (y % 4 = 0 /\ y % 100 # 0) \/ y % 400 = 0

DaysInMonth(y, m) ==
    IF m = 2 THEN (IF IsLeap(y) THEN 29 ELSE 28)
    ELSE IF m \in {4, 6, 9, 11} THEN 30 ELSE 31

\* the value of a failed parse (the code's "except Exception")
NoDate == <<0, 0, 0>>

\* datetime.strptime(s, fmt): the date <<year, month, day>>, or NoDate when
\* it raises ValueError (no match, unconverted data, or no such day)
strptime(s, fmt) ==
    LET found == {r \in MatchFormat(fmt, 1, s, 1, 1900, 1, 1) :
                    r[1] >= 1 /\ r[3] <= DaysInMonth(r[1], r[2])}
    IN  IF found = {} THEN NoDate ELSE CHOOSE r \in found : TRUE

\* date comparison a <= b
DateLE(a, b) ==
    \/ a[1] < b[1]
    \/ a[1] = b[1] /\ a[2] < b[2]
    \/ a[1] = b[1] /\ a[2] = b[2] /\ a[3] <= b[3]

DigitChars == <<"0", "1", "2", "3", "4", "5", "6", "7", "8", "9">>

\* n written in decimal, zero-padded to w digits
RECURSIVE Pad(_, _)
Pad(n, w) ==
    IF w = 0 THEN <<>> ELSE Pad(n \div 10, w - 1) \o <<DigitChars[(n % 10) + 1]>>

\* dt.strftime("%m-%d-%Y")
strftime_mdY(dt) == Pad(dt[2], 2) \o <<"-">> \o Pad(dt[3], 2) \o <<"-">> \o Pad(dt[1], 4)


-----------------------------------------------------------------------------
(* iterate_hearings_collect_anums: reading one hearing popup               *)

HearingDateLabel == <<"H","E","A","R","I","N","G"," ","D","A","T","E",":">>

\* re.search(r"Hearing Date:\s*([^\n]+)", text, re.I), then
\* date_match.group(1).strip() if date_match else ""
the_date_of(text) ==
    LET occ == {i \in 1..Len(text) : OccursAt(HearingDateLabel, upper(text), i)}
    IN  IF occ = {} THEN <<>>
        ELSE LET i == CHOOSE a \in occ : \A b \in occ : a <= b
                 from == i + Len(HearingDateLabel)
                 ink == {k \in from..Len(text) : ~IsSpace(text[k])}
             IN  IF ink = {} THEN <<>>
                 ELSE LET k == CHOOSE a \in ink : \A b \in ink : a <= b
                          eols == {q \in k..Len(text) : text[q] = "\n"} \cup {Len(text) + 1}
                          eol == CHOOSE a \in eols : \A b \in eols : a <= b
                      IN  strip(Slice(text, k, eol - 1))

\* "%m/%d/%Y"
FmtSlashMDY == <<"m", "/", "d", "/", "Y">>

\* The range with its end left out: start_date <= dt < end_date.
in_range_exclusive(dt, start_date, end_date) ==
    IF dt = NoDate THEN TRUE
    ELSE DateLE(start_date, dt) /\ DateLE(dt, end_date) /\ dt # end_date

\* in_range = True; try: dt = ...; in_range = (start_date <= dt <= end_date)
\* except Exception: pass          (dt is NoDate when strptime raises)
in_range(dt, start_date, end_date) ==
    IF dt = NoDate THEN TRUE
    ELSE DateLE(start_date, dt) /\ DateLE(dt, end_date)

\* [#\-\s]
IsANumSep(c) == c \in {"#", "-"} \/ IsSpace(c)
\* [-\s]
IsGroupSep(c) == c = "-" \/ IsSpace(c)

\* A[#\-\s]*\s*(\d{3}[-\s]?\d{3}[-\s]?\d{3}) tried at position i of text:
\* <<first, last>> positions of the captured group, or <<>> when no match
ANumMatchAt(text, i) ==
    IF ~(i <= Len(text) /\ text[i] = "A") THEN <<>>
    ELSE LET rest == {k \in (i + 1)..(Len(text) + 1) :
                        k = Len(text) + 1 \/ ~IsANumSep(text[k])}
             g1 == CHOOSE a \in rest : \A b \in rest : a <= b
             three(k) == \A q \in 0..2 : IsDigitAt(text, k + q)
             skip(k) == IF k <= Len(text) /\ IsGroupSep(text[k]) THEN k + 1 ELSE k
             g2 == skip(g1 + 3)
             g3 == skip(g2 + 3)
         IN  IF three(g1) /\ three(g2) /\ three(g3) THEN <<g1, g3 + 2>> ELSE <<>>

\* re.findall(...): the captured groups of the non-overlapping matches,
\* scanning from position i
RECURSIVE FindAllANums(_, _)
FindAllANums(text, i) ==
    IF i > Len(text) THEN <<>>
    ELSE LET m == ANumMatchAt(text, i)
         IN  IF m = <<>> THEN FindAllANums(text, i + 1)
             ELSE <<SubSeq(text, m[1], m[2])>> \o FindAllANums(text, m[2] + 1)

\* re.sub(r"[^0-9]", "", a)
StripNonDigits(a) == SelectSeq(a, LAMBDA c : c \in Digits)

\* if in_range: for a in anums: a_numbers.add(re.sub(...))
CollectFromPopup(set, dt, found, start_date, end_date) ==
    IF in_range(dt, start_date, end_date)
    THEN set \cup {StripNonDigits(a) : a \in Range(found)}
    ELSE set


-----------------------------------------------------------------------------
(* The portal, as far as the run reads it                                  *)

\* Texts a hearing-detail popup may show (popup.text).
PopupTexts ==
    { \* "Hearing Date: 03/05/2024\nA# 123-456-789"
      <<"H","e","a","r","i","n","g"," ","D","a","t","e",":"," ","0","3","/","0","5","/","2","0","2","4","\n","A","#"," ","1","2","3","-","4","5","6","-","7","8","9">>,
      \* "Hearing Date: 03/10/2024\nA 123 456 789"
      <<"H","e","a","r","i","n","g"," ","D","a","t","e",":"," ","0","3","/","1","0","/","2","0","2","4","\n","A"," ","1","2","3"," ","4","5","6"," ","7","8","9">>,
      \* "Hearing Date: 03/04/2024\nA-987654321"
      <<"H","e","a","r","i","n","g"," ","D","a","t","e",":"," ","0","3","/","0","4","/","2","0","2","4","\n","A","-","9","8","7","6","5","4","3","2","1">>,
      \* "Hearing Date: 03/11/2024\nA#123456789"
      <<"H","e","a","r","i","n","g"," ","D","a","t","e",":"," ","0","3","/","1","1","/","2","0","2","4","\n","A","#","1","2","3","4","5","6","7","8","9">>,
      \* "Hearing Date: 02/30/2024\nA# 987-654-321"   (no such day)
      <<"H","e","a","r","i","n","g"," ","D","a","t","e",":"," ","0","2","/","3","0","/","2","0","2","4","\n","A","#"," ","9","8","7","-","6","5","4","-","3","2","1">>,
      \* "A#987 654321 A# 12-345"                     (no hearing date)
      <<"A","#","9","8","7"," ","6","5","4","3","2","1"," ","A","#"," ","1","2","-","3","4","5">>,
      \* "Hearing Date: 3/7/2024 9:00 AM\nA 987654321" (a time after the date)
      <<"H","e","a","r","i","n","g"," ","D","a","t","e",":"," ","3","/","7","/","2","0","2","4"," ","9",":","0","0"," ","A","M","\n","A"," ","9","8","7","6","5","4","3","2","1">>,
      \* "Hearing Date: 03/06/2024\nA# <U+0663>45-678-912"  (a non-ASCII digit)
      <<"H","e","a","r","i","n","g"," ","D","a","t","e",":"," ","0","3","/","0","6","/","2","0","2","4","\n","A","#"," ",ArabicIndicThree,"4","5","-","6","7","8","-","9","1","2">>,
      \* "Hearing Date: 03/07/2024\nNo respondent"
      <<"H","e","a","r","i","n","g"," ","D","a","t","e",":"," ","0","3","/","0","7","/","2","0","2","4","\n","N","o"," ","r","e","s","p","o","n","d","e","n","t">> }

\* "%Y-%m-%d"
FmtISO == <<"Y", "-", "m", "-", "d">>

\* The (start, end) answers typed at the prompts of main:
\* 2024-03-05 and 2024-03-10.
RangeInputs ==
    { << <<"2","0","2","4","-","0","3","-","0","5">>,
         <<"2","0","2","4","-","0","3","-","1","0">> >> }

\* most cells find_elements returns for one calendar page
MaxCells == 2
\* most distinct popup texts one traversal reads
MaxPopups == 2

\* The tables below are written f @@ <<>>: f as an explicit function, its
\* values computed once.

\* dt = datetime.strptime(the_date, "%m/%d/%Y").date() for each popup text
popup_dt ==
    [text \in PopupTexts |-> strptime(the_date_of(text), FmtSlashMDY)] @@ <<>>

\* anums = re.findall(r"A[#\-\s]*\s*(\d{3}[-\s]?\d{3}[-\s]?\d{3})", text)
popup_anums == [text \in PopupTexts |-> FindAllANums(text, 1)] @@ <<>>

-----------------------------------------------------------------------------
(* iterate_hearings_collect_anums                                          *)

\* while months_checked < 60
MaxMonths == 60

\* The guard off by one: while months_checked <= 60.
MonthLoopGuard_inclusive(n) == n <= MaxMonths

MonthLoopGuard(n) == n < MaxMonths

start_date == date_range[1]
end_date == date_range[2]

\* goto_calendar succeeds: a_numbers = set(); months_checked = 0
GotoCalendar ==
    /\ pc = "start"
    /\ pc' = "month_loop"
    /\ months_checked' = 0
    /\ a_numbers' = {}
    /\ UNCHANGED <<date_range, cells, popups, advances, stop, cell_error, anums, report>>
    /\ UNCHANGED caseVars
    /\ UNCHANGED fnVars

\* goto_calendar: wait.until(...) raises; nothing in main catches it
GotoCalendarFails ==
    /\ pc = "start"
    /\ pc' = "crashed"
    /\ UNCHANGED <<date_range, anums, report>>
    /\ UNCHANGED calVars
    /\ UNCHANGED caseVars
    /\ UNCHANGED fnVars

\* loop head, guard true: months_checked += 1; cells = find_elements(...)
MonthBegin ==
    /\ pc = "month_loop"
    /\ MonthLoopGuard(months_checked)
    /\ months_checked' = months_checked + 1
    /\ \E n \in 0..MaxCells : cells' = n
    /\ pc' = "cells"
    /\ UNCHANGED <<date_range, a_numbers, popups, advances, stop, cell_error, anums,
                   report>>
    /\ UNCHANGED caseVars
    /\ UNCHANGED fnVars

\* The early end of the traversal treated as a failure: nothing is returned.
ReturnANums_dropped(why) ==
    /\ anums' = IF why = "next_failed" THEN <<>> ELSE sorted(a_numbers)
    /\ stop' = why
    /\ pc' = "cal_returned"

\* return sorted(a_numbers)
ReturnANums(why) ==
    /\ anums' = sorted(a_numbers)
    /\ stop' = why
    /\ pc' = "cal_returned"

\* loop head, guard false: the loop ends and the function returns
MonthLoopEnds ==
    /\ pc = "month_loop"
    /\ ~MonthLoopGuard(months_checked)
    /\ ReturnANums("bound")
    /\ UNCHANGED <<date_range, months_checked, cells, a_numbers, popups, advances,
                   cell_error, report>>
    /\ UNCHANGED caseVars
    /\ UNCHANGED fnVars

\* one cell whose popup appears: its text is read and folded into a_numbers
CellPopupRead ==
    /\ pc = "cells"
    /\ cells > 0
    /\ \E text \in PopupTexts :
        /\ text \in popups \/ Cardinality(popups) < MaxPopups
        /\ popups' = popups \cup {text}
        /\ a_numbers' = CollectFromPopup(a_numbers, popup_dt[text], popup_anums[text],
                                          start_date, end_date)
    /\ cells' = cells - 1
    /\ cell_error' = ""
    /\ UNCHANGED <<pc, date_range, months_checked, advances, stop, anums, report>>
    /\ UNCHANGED caseVars
    /\ UNCHANGED fnVars

\* one cell whose popup is read and folded into a_numbers, and then cannot be
\* closed: the close click raises, execute_script raises too (lines 205-208),
\* and the cell ends in "except Exception: continue"
CellCloseFails ==
    /\ pc = "cells"
    /\ cells > 0
    /\ \E text \in PopupTexts :
        /\ text \in popups \/ Cardinality(popups) < MaxPopups
        /\ popups' = popups \cup {text}
        /\ a_numbers' = CollectFromPopup(a_numbers, popup_dt[text], popup_anums[text],
                                          start_date, end_date)
    /\ cells' = cells - 1
    /\ cell_error' = "after_collect"
    /\ UNCHANGED <<pc, date_range, months_checked, advances, stop, anums, report>>
    /\ UNCHANGED caseVars
    /\ UNCHANGED fnVars

\* The handler leaving the traversal: the cells and pages after the cell
\* that raised are not visited.
CellFails_abort ==
    /\ pc = "cells"
    /\ cells > 0
    /\ cells' = cells - 1
    /\ cell_error' = "before_read"
    /\ ReturnANums("cell_failed")
    /\ UNCHANGED <<date_range, months_checked, a_numbers, popups, advances, report>>
    /\ UNCHANGED caseVars
    /\ UNCHANGED fnVars

\* one cell for which wait.until(popup) raises (or line 184 or popup.text
\* does), before anything of the cell is collected:
\* "except Exception: continue"
CellFails ==
    /\ pc = "cells"
    /\ cells > 0
    /\ cells' = cells - 1
    /\ cell_error' = "before_read"
    /\ UNCHANGED <<pc, date_range, months_checked, a_numbers, popups, advances, stop,
                   anums, report>>
    /\ UNCHANGED caseVars
    /\ UNCHANGED fnVars

\* after the last cell: the "next" control is found and clicked
NextMonthClicked ==
    /\ pc = "cells"
    /\ cells = 0
    /\ advances' = advances + 1
    /\ pc' = "month_loop"
    /\ UNCHANGED <<date_range, months_checked, cells, a_numbers, popups, stop,
                   cell_error, anums, report>>
    /\ UNCHANGED caseVars
    /\ UNCHANGED fnVars

\* after the last cell: find_element or click raises: "except Exception: break"
NextMonthFails ==
    /\ pc = "cells"
    /\ cells = 0
    /\ ReturnANums("next_failed")
    /\ UNCHANGED <<date_range, months_checked, cells, a_numbers, popups, advances,
                   cell_error, report>>
    /\ UNCHANGED caseVars
    /\ UNCHANGED fnVars


-----------------------------------------------------------------------------
(* parse_date_any                                                          *)

\* fmts, in the order they are tried
DateFormats ==
    << <<"m", "/", "d", "/", "Y">>,
       <<"m", "-", "d", "-", "Y">>,
       <<"Y", "-", "m", "-", "d">>,
       <<"m", "/", "d", "/", "y">>,
       <<"b", " ", "d", ",", " ", "Y">>,
       <<"B", " ", "d", ",", " ", "Y">> >>

\* \b at position i of s (between s[i-1] and s[i])
WordBoundary(s, i) ==
    LET l == i > 1 /\ i - 1 <= Len(s) /\ IsWordChar(s[i - 1])
        r == i >= 1 /\ i <= Len(s) /\ IsWordChar(s[i])
    IN  l # r

DigitsAt(s, i, n) == \A q \in 0..(n - 1) : IsDigitAt(s, i + q)

\* re.search(r"\b(\d{4})-(\d{2})-(\d{2})\b", s): m.group(0), or <<>>
SearchISO(s) ==
    LET at == {i \in 1..Len(s) :
                /\ WordBoundary(s, i)
                /\ DigitsAt(s, i, 4) /\ i + 4 <= Len(s) /\ s[i + 4] = "-"
                /\ DigitsAt(s, i + 5, 2) /\ i + 7 <= Len(s) /\ s[i + 7] = "-"
                /\ DigitsAt(s, i + 8, 2)
                /\ WordBoundary(s, i + 10)}
    IN  IF at = {} THEN <<>>
        ELSE LET i == CHOOSE a \in at : \A b \in at : a <= b
             IN  SubSeq(s, i, i + 9)

\* \b(\d{1,2})/(\d{1,2})/(\d{4})\b tried at position i: the positions just
\* after the match
SlashDateEnds(s, i) ==
    {e \in (i + 8)..(i + 10) :
        /\ WordBoundary(s, i)
        /\ WordBoundary(s, e)
        /\ \E a \in 1..2 : \E b \in 1..2 :
            /\ e = i + a + b + 6
            /\ DigitsAt(s, i, a) /\ i + a <= Len(s) /\ s[i + a] = "/"
            /\ DigitsAt(s, i + a + 1, b)
            /\ i + a + b + 1 <= Len(s) /\ s[i + a + b + 1] = "/"
            /\ DigitsAt(s, i + a + b + 2, 4)}

\* re.search(r"\b(\d{1,2})/(\d{1,2})/(\d{4})\b", s): m.group(0), or <<>>
SearchSlash(s) ==
    LET at == {i \in 1..Len(s) : SlashDateEnds(s, i) # {}}
    IN  IF at = {} THEN <<>>
        ELSE LET i == CHOOSE a \in at : \A b \in at : a <= b
                 e == CHOOSE x \in SlashDateEnds(s, i) : TRUE
             IN  SubSeq(s, i, e - 1)

\* the loop over fmts from format k on: the first format that parses
RECURSIVE TryFormats(_, _)
TryFormats(s, k) ==
    IF k > Len(DateFormats) THEN NoDate
    ELSE IF strptime(s, DateFormats[k]) # NoDate THEN strptime(s, DateFormats[k])
    ELSE TryFormats(s, k + 1)

parse_date_any(raw) ==
    IF raw = <<>> THEN <<>>
    ELSE LET s == strip(raw)
             iso == SearchISO(s)
             sl == SearchSlash(s)
         IN  IF TryFormats(s, 1) # NoDate THEN strftime_mdY(TryFormats(s, 1))
             ELSE IF iso # <<>> /\ strptime(iso, FmtISO) # NoDate
                  THEN strftime_mdY(strptime(iso, FmtISO))
             ELSE IF sl # <<>> /\ strptime(sl, FmtSlashMDY) # NoDate
                  THEN strftime_mdY(strptime(sl, FmtSlashMDY))
             ELSE s


-----------------------------------------------------------------------------
(* extract_relevant_dates_text                                             *)

\* A pattern is its label and the atoms before the (?P<date>...) group.
\* Atoms: "lit" one of the literals; "optlit" the same, optional;
\* "ws" \s+; "optlitws" an optional literal followed by \s+.
\* Literals are upper case: the patterns are matched with re.I.
Lit(alts) == [k |-> "lit", alts |-> alts]
OptLit(alts) == [k |-> "optlit", alts |-> alts]
OptLitWs(alts) == [k |-> "optlitws", alts |-> alts]
Ws == [k |-> "ws", alts |-> {}]

ForOrOn == Lit({<<"F","O","R">>, <<"O","N">>})

LabelHEARING == <<"H","E","A","R","I","N","G">>
LabelDUE == <<"D","U","E">>
LabelDEADLINE == <<"D","E","A","D","L","I","N","E">>

patterns ==
    << [label |-> LabelHEARING,
        atoms |-> << Lit({<<"H","E","A","R","I","N","G"," ">>}),
                     OptLit({<<"I","S"," ">>}),
                     Lit({<<"S","E","T"," ">>}), ForOrOn, Ws >>],
       [label |-> LabelHEARING,
        atoms |-> << Lit({<<"I","N","D","I","V","I","D","U","A","L"," ","H","E","A","R","I","N","G"," ","O","N">>}),
                     Ws >>],
       [label |-> LabelHEARING,
        atoms |-> << Lit({<<"M","A","S","T","E","R"," ","H","E","A","R","I","N","G"," ","O","N">>}),
                     Ws >>],
       [label |-> LabelDUE,
        atoms |-> << Lit({<<"A","P","P","L","I","C","A","T","I","O","N">>,
                          <<"A","P","P","L","I","C","A","T","I","O","N","S">>,
                          <<"R","E","L","I","E","F">>, <<"B","R","I","E","F">>,
                          <<"E","V","I","D","E","N","C","E">>,
                          <<"D","O","C","U","M","E","N","T">>,
                          <<"D","O","C","U","M","E","N","T","S">>}),
                     Ws, OptLitWs({<<"A","R","E">>}), Lit({<<"D","U","E">>}), Ws,
                     Lit({<<"B","Y">>, <<"O","N">>}), Ws >>],
       [label |-> LabelDEADLINE,
        atoms |-> << Lit({<<"D","E","A","D","L","I","N","E">>,
                          <<"D","E","A","D","L","I","N","E","S">>}),
                     Ws, Lit({<<"S","E","T">>, <<"I","S">>, <<"A","R","E">>}), Ws,
                     ForOrOn, Ws >>] >>

\* \s+ from position i: the positions it can end before
WsEnds(u, i) ==
    {j \in (i + 1)..(Len(u) + 1) : \A q \in i..(j - 1) : IsSpace(u[q])}

LitEnds(alts, u, i) == {i + Len(a) : a \in {b \in alts : OccursAt(b, u, i)}}

AtomEnds(atom, u, i) ==
    CASE atom.k = "lit" -> LitEnds(atom.alts, u, i)
      [] atom.k = "optlit" -> LitEnds(atom.alts, u, i) \cup {i}
      [] atom.k = "ws" -> WsEnds(u, i)
      [] atom.k = "optlitws" ->
            {i} \cup UNION {WsEnds(u, e) : e \in LitEnds(atom.alts, u, i)}

\* the positions where atoms[k..] can end when matched from position i
RECURSIVE PrefixEnds(_, _, _, _)
PrefixEnds(atoms, k, u, i) ==
    IF k > Len(atoms) THEN {i}
    ELSE UNION {PrefixEnds(atoms, k + 1, u, e) : e \in AtomEnds(atoms[k], u, i)}

\* (?:\w{3,9}\s+\d{1,2},\s+\d{4}) from position i: the positions after it
TextualDateEnds(s, i) ==
    UNION {
      UNION {
        UNION {
          {y + 4 : y \in {z \in WsEnds(s, i + n + b + a + 1) : DigitsAt(s, z, 4)}}
          : a \in {x \in 1..2 : /\ DigitsAt(s, i + n + b, x)
                                /\ i + n + b + x <= Len(s)
                                /\ s[i + n + b + x] = ","}}
        : b \in {x - (i + n) : x \in WsEnds(s, i + n)}}
      : n \in {m \in 3..9 : \A q \in 0..(m - 1) :
                                i + q <= Len(s) /\ IsWordChar(s[i + q])}}

\* (?:\d{1,2}/\d{1,2}/\d{2,4}) from position i: the positions after it
NumericDateEnds(s, i) ==
    {e \in (i + 6)..(i + 10) :
        \E a \in 1..2 : \E b \in 1..2 : \E c \in 2..4 :
            /\ e = i + a + b + c + 2
            /\ DigitsAt(s, i, a) /\ i + a <= Len(s) /\ s[i + a] = "/"
            /\ DigitsAt(s, i + a + 1, b)
            /\ i + a + b + 1 <= Len(s) /\ s[i + a + b + 1] = "/"
            /\ DigitsAt(s, i + a + b + 2, c)}

\* the date group from position i: the position after it (the alternatives
\* in order, each as long as it can be), or 0 when it does not match
DateGroupEnd(s, i) ==
    LET t == TextualDateEnds(s, i)
        n == NumericDateEnds(s, i)
    IN  IF t # {} THEN CHOOSE e \in t : \A f \in t : f <= e
        ELSE IF n # {} THEN CHOOSE e \in n : \A f \in n : f <= e
        ELSE 0

\* one pattern tried at position i: <<first, last>> of the date group,
\* or <<>> when the pattern does not match there
PatternMatchAt(atoms, text, i) ==
    LET ds == {d \in PrefixEnds(atoms, 1, upper(text), i) : DateGroupEnd(text, d) # 0}
    IN  IF ds = {} THEN <<>>
        ELSE LET d == CHOOSE x \in ds : \A y \in ds : y <= x
             IN  <<d, DateGroupEnd(text, d) - 1>>

\* re.finditer(pat, text, flags=re.I) from position pos: the date groups
RECURSIVE FindDates(_, _, _)
FindDates(atoms, text, pos) ==
    LET at == {i \in pos..Len(text) : PatternMatchAt(atoms, text, i) # <<>>}
    IN  IF at = {} THEN <<>>
        ELSE LET i == CHOOSE a \in at : \A b \in at : a <= b
                 m == PatternMatchAt(atoms, text, i)
             IN  <<SubSeq(text, m[1], m[2])>> \o FindDates(atoms, text, m[2] + 1)

\* findings.append(f"{label} {parse_date_any(dt)}") for the patterns from k on
RECURSIVE Findings(_, _)
Findings(text, k) ==
    IF k > Len(patterns) THEN <<>>
    ELSE LET ds == FindDates(patterns[k].atoms, text, 1)
         IN  [j \in 1..Len(ds) |-> patterns[k].label \o <<" ">> \o parse_date_any(ds[j])]
             \o Findings(text, k + 1)

\* No deduplication: every finding is kept.
Dedup_none(fs) == fs

\* list(dict.fromkeys(findings)): first occurrences, in order
RECURSIVE Dedup(_)
Dedup(fs) ==
    IF fs = <<>> THEN <<>>
    ELSE LET init == Dedup(SubSeq(fs, 1, Len(fs) - 1))
             last == fs[Len(fs)]
         IN  IF last \in Range(init) THEN init ELSE Append(init, last)

extract_relevant_dates_text(text) ==
    IF text = <<>> THEN <<>>
    ELSE join(<<" ", ";", " ">>, Dedup(Findings(text, 1)))

-----------------------------------------------------------------------------
(* build_new_filename                                                      *)

Placeholder == <<"E","C","A","S","_","D","o","c","u","m","e","n","t">>
Extension == <<".","p","d","f">>

\* The date put before the pleading name: label, date, pleading name, notes.
build_new_filename_swapped(label, pleading_name, file_date, notes) ==
    LET parts ==
            (IF label # <<>> THEN <<sanitize(label)>> ELSE <<>>)
            \o (IF file_date # <<>> THEN <<parse_date_any(file_date)>> ELSE <<>>)
            \o (IF pleading_name # <<>> THEN <<sanitize(pleading_name)>> ELSE <<>>)
            \o (IF notes # <<>> THEN <<sanitize(notes)>> ELSE <<>>)
        name == join(<<" ", "-", " ">>, parts)
    IN  (IF name # <<>> THEN name ELSE Placeholder) \o Extension

build_new_filename(label, pleading_name, file_date, notes) ==
    LET parts ==
            (IF label # <<>> THEN <<sanitize(label)>> ELSE <<>>)
            \o (IF pleading_name # <<>> THEN <<sanitize(pleading_name)>> ELSE <<>>)
            \o (IF file_date # <<>> THEN <<parse_date_any(file_date)>> ELSE <<>>)
            \o (IF notes # <<>> THEN <<sanitize(notes)>> ELSE <<>>)
        name == join(<<" ", "-", " ">>, parts)
    IN  (IF name # <<>> THEN name ELSE Placeholder) \o Extension


-----------------------------------------------------------------------------
(* download_case_docs: the case's document rows and the output directory   *)

\* First pages of the PDFs the portal serves (reader.pages[0].extract_text()).
PdfPages ==
    [ \* "ORDER OF THE COURT\nHearing set for 3/9/2024"
      order |-> <<"O","R","D","E","R"," ","O","F"," ","T","H","E"," ","C","O","U","R","T","\n","H","e","a","r","i","n","g"," ","s","e","t"," ","f","o","r"," ","3","/","9","/","2","0","2","4">>,
      \* "Motion to Continue\ndeadline set for 3/10/2024"
      motion |-> <<"M","o","t","i","o","n"," ","t","o"," ","C","o","n","t","i","n","u","e","\n","d","e","a","d","l","i","n","e"," ","s","e","t"," ","f","o","r"," ","3","/","1","0","/","2","0","2","4">>,
      \* a scanned document: no text layer
      scan |-> <<>> ]

\* the text of the first page of a downloaded file
extract_first_page_text(pdf) == PdfPages[pdf]

\* Document rows a case listing may show: the label and date cells, and the
\* PDF the row's download button serves.
RowPool ==
    { [label |-> <<"O","r","d","e","r">>,
       file_date |-> <<"0","3","/","0","5","/","2","0","2","4">>,
       pdf |-> "order"],
      [label |-> <<"M","o","t","i","o","n">>,
       file_date |-> <<>>,
       pdf |-> "motion"],
      [label |-> <<"O","r","d","e","r">>,
       file_date |-> <<"3","/","5","/","2","4","x">>,
       pdf |-> "scan"] }

\* most rows find_elements returns for one case
MaxRows == 3
\* most document rows the portal lists over a whole run
MaxDocs == 3

\* str(n) for n >= 0
RECURSIVE str(_)
str(n) == IF n < 10 THEN <<DigitChars[n + 1]>>
          ELSE str(n \div 10) \o <<DigitChars[(n % 10) + 1]>>

\* The name the browser gives the file downloaded for row r of case c; the
\* browser does not reuse a name that is taken.
RawName(c, r) == <<"d","o","c">> \o str(c) \o <<"_">> \o str(r) \o Extension

\* set(self.download_dir.glob("*.pdf")), as names
Names(d) == {f.name : f \in d}

\* position of the last "." of a name (0 when there is none)
LastDot(name) ==
    LET dots == {i \in 1..Len(name) : name[i] = "."}
    IN  IF dots = {} THEN 0 ELSE CHOOSE i \in dots : \A j \in dots : j <= i

\* Path.stem and Path.suffix of a name without path separator
stem(name) == IF LastDot(name) <= 1 THEN name ELSE SubSeq(name, 1, LastDot(name) - 1)
suffix(name) == IF LastDot(name) <= 1 THEN <<>> ELSE SubSeq(name, LastDot(name), Len(name))

\* final_path.stem + f" ({i})" + final_path.suffix
Suffixed(name, i) == stem(name) \o <<" ", "(">> \o str(i) \o <<")">> \o suffix(name)

\* The collision loop left out: the candidate is used as it is.
ResolveCollision_overwrite(name, i, taken) == name

\* i = 2; while final_path.exists(): final_path = ...; i += 1
RECURSIVE ResolveCollision(_, _, _)
ResolveCollision(name, i, taken) ==
    IF name \notin taken THEN name
    ELSE ResolveCollision(Suffixed(name, i), i + 1, taken)

\* The test left out: the extractor runs for every row.
IsOrderLabel_always(label) == TRUE

\* "ORDER" in label.upper()
IsOrderLabel(label) == Contains(upper(label), <<"O","R","D","E","R">>)

notes_of(label, text) ==
    IF IsOrderLabel(label) THEN extract_relevant_dates_text(text) ELSE <<>>

\* The name has a path separator: final_path lies in a subdirectory that
\* nothing creates, and downloaded.rename(final_path) raises.
RenameRaises(name) == \E i \in 1..Len(name) : name[i] = "/"

\* The first-page texts the rows' files can carry.
RowTexts == {extract_first_page_text(r.pdf) : r \in RowPool}

\* pleading_name = guess_pleading_name_from_text(text), per text
pleading_name == [t \in RowTexts |-> guess_pleading_name_from_text(t)] @@ <<>>

\* notes = "" / extract_relevant_dates_text(text), per label and text
notes ==
    [lt \in {r.label : r \in RowPool} \X RowTexts |-> notes_of(lt[1], lt[2])] @@ <<>>

\* new_name = build_new_filename(label, pleading_name, file_date, notes),
\* per label and date of a row and text of a file (the file picked as new[0]
\* need not be the one the row's click started)
new_name ==
    [c \in {<<r.label, r.file_date>> : r \in RowPool} \X RowTexts |->
        build_new_filename(c[1][1], pleading_name[c[2]], c[1][2],
                           notes[<<c[1][1], c[2]>>])] @@ <<>>

\* the dict appended to log_rows
LogRecord(anumber, label, text, file_date, filename) ==
    [anumber |-> anumber,
     label |-> label,
     pleading |-> pleading_name[text],
     file_date |-> file_date,
     notes |-> notes[<<label, text>>],
     filename |-> filename]


-----------------------------------------------------------------------------
(* main and download_case_docs                                             *)

NoRow == [label |-> <<>>, file_date |-> <<>>]

\* What became of one row, kept for the record of the run: how the row
\* ended, and for a row that was logged the newname and the final name
\* (final_path.name) its file got.
Outcome(how, newname, final) ==
    [case |-> caseIdx, row |-> rowIdx + 1, how |-> how, newname |-> newname,
     final |-> final]

\* main after the traversal returned: log_rows = []; the loop over anums.
\* The locals of iterate_hearings_collect_anums are gone.
BeginHarvest ==
    /\ pc = "cal_returned"
    /\ pc' = "case_loop"
    /\ caseIdx' = 0
    /\ log_rows' = <<>>
    /\ months_checked' = 0
    /\ cells' = 0
    /\ a_numbers' = {}
    /\ popups' = {}
    /\ advances' = 0
    /\ stop' = ""
    /\ cell_error' = ""
    /\ UNCHANGED <<date_range, anums, rows, rowIdx, cur, before, dir, inflight,
                   warnings, outcomes, report>>
    /\ UNCHANGED fnVars

\* for a in anums: the next case
NextCase ==
    /\ pc = "case_loop"
    /\ caseIdx < Len(anums)
    /\ caseIdx' = caseIdx + 1
    /\ pc' = "case_nav"
    /\ UNCHANGED <<date_range, anums, rows, rowIdx, cur, before, dir, inflight,
                   log_rows, warnings, outcomes, report>>
    /\ UNCHANGED calVars
    /\ UNCHANGED fnVars

\* lines 220-227 succeed: the case is found and opened, its documents tab
\* shows, rows = find_elements(...)
OpenCase ==
    /\ pc = "case_nav"
    /\ \E n \in 0..MaxRows :
        /\ Len(outcomes) + n <= MaxDocs
        /\ rows' = n
    /\ rowIdx' = 0
    /\ pc' = "rows"
    /\ UNCHANGED <<date_range, anums, caseIdx, cur, before, dir, inflight, log_rows,
                   warnings, outcomes, report>>
    /\ UNCHANGED calVars
    /\ UNCHANGED fnVars

\* lines 220-225: a wait.until(...) raises; download_case_docs has no
\* handler there and main has none, so the run ends with the exception
OpenCaseFails ==
    /\ pc = "case_nav"
    /\ pc' = "crashed"
    /\ UNCHANGED <<date_range, anums, report>>
    /\ UNCHANGED calVars
    /\ UNCHANGED caseVars
    /\ UNCHANGED fnVars

\* "continue" / end of the loop body: on to the next row
NextRow ==
    /\ rowIdx' = rowIdx + 1
    /\ cur' = NoRow
    /\ before' = {}
    /\ pc' = "rows"

\* "break" in place of "continue" in the handler: the rows after the one
\* that raised are not visited.
RowError_break ==
    /\ warnings' = Append(warnings, <<caseIdx, rowIdx + 1>>)
    /\ outcomes' = Append(outcomes, Outcome("error", <<>>, <<>>))
    /\ rowIdx' = rows
    /\ cur' = NoRow
    /\ before' = {}
    /\ pc' = "rows"

\* except Exception as e: print("[WARN] Row error ..."); continue
RowError ==
    /\ warnings' = Append(warnings, <<caseIdx, rowIdx + 1>>)
    /\ outcomes' = Append(outcomes, Outcome("error", <<>>, <<>>))
    /\ NextRow

\* lines 230-236 raise (a cell of the row cannot be read, the click fails)
RowReadFails ==
    /\ pc = "rows"
    /\ rowIdx < rows
    /\ RowError
    /\ UNCHANGED <<date_range, anums, caseIdx, rows, dir, inflight, log_rows, report>>
    /\ UNCHANGED calVars
    /\ UNCHANGED fnVars

\* if not btns: continue
RowNoButton ==
    /\ pc = "rows"
    /\ rowIdx < rows
    /\ outcomes' = Append(outcomes, Outcome("no_button", <<>>, <<>>))
    /\ NextRow
    /\ UNCHANGED <<date_range, anums, caseIdx, rows, dir, inflight, log_rows,
                   warnings, report>>
    /\ UNCHANGED calVars
    /\ UNCHANGED fnVars

\* lines 230-237: label and date are read, the directory is snapshotted and
\* the button clicked; the browser starts the row's download
RowClick ==
    /\ pc = "rows"
    /\ rowIdx < rows
    /\ \E r \in RowPool :
        /\ cur' = [label |-> r.label, file_date |-> r.file_date]
        /\ inflight' = inflight \cup
               {[name |-> RawName(caseIdx, rowIdx + 1), pdf |-> r.pdf]}
    /\ before' = Names(dir)
    /\ pc' = "poll"
    /\ UNCHANGED <<date_range, anums, caseIdx, rows, rowIdx, dir, log_rows, warnings,
                   outcomes, report>>
    /\ UNCHANGED calVars
    /\ UNCHANGED fnVars

\* the browser finishes a download it had started: the file appears
DownloadLands ==
    /\ pc \in {"poll", "rows"}
    /\ \E d \in inflight :
        /\ dir' = dir \cup {d}
        /\ inflight' = inflight \ {d}
    /\ UNCHANGED <<pc, date_range, anums, caseIdx, rows, rowIdx, cur, before,
                   log_rows, warnings, outcomes, report>>
    /\ UNCHANGED calVars
    /\ UNCHANGED fnVars

\* new = list(now - before)
NewFiles == {f \in dir : f.name \notin before}

\* "break" in place of "continue": the rows after the one that timed out
\* are not visited.
TimeoutSkip_break ==
    /\ outcomes' = Append(outcomes, Outcome("timeout", <<>>, <<>>))
    /\ rowIdx' = rows
    /\ cur' = NoRow
    /\ before' = {}
    /\ pc' = "rows"
    /\ UNCHANGED warnings

\* the polling loop ends at the deadline with no new file:
\* "if not downloaded: continue"
TimeoutSkip ==
    /\ outcomes' = Append(outcomes, Outcome("timeout", <<>>, <<>>))
    /\ NextRow
    /\ UNCHANGED warnings

PollTimeout ==
    /\ pc = "poll"
    /\ NewFiles = {}
    /\ TimeoutSkip
    /\ UNCHANGED <<date_range, anums, caseIdx, rows, dir, inflight, log_rows, report>>
    /\ UNCHANGED calVars
    /\ UNCHANGED fnVars

\* downloaded = new[0]; lines 248-265: the file is read, named, renamed and
\* logged; a name that cannot be renamed to raises into the row's handler
RowProcess ==
    /\ pc = "poll"
    /\ \E f \in NewFiles :
       \E text \in {extract_first_page_text(f.pdf)} :
       \E newname \in {new_name[<< <<cur.label, cur.file_date>>, text >>]} :
       \E final \in {ResolveCollision(newname, 2, Names(dir))} :
            IF RenameRaises(final)
            THEN /\ RowError
                 /\ UNCHANGED <<dir, log_rows>>
            ELSE /\ dir' = (dir \ {f}) \cup {[name |-> final, pdf |-> f.pdf]}
                 /\ log_rows' = Append(log_rows,
                        LogRecord(anums[caseIdx], cur.label, text, cur.file_date, final))
                 /\ outcomes' = Append(outcomes, Outcome("ok", newname, final))
                 /\ NextRow
                 /\ UNCHANGED warnings
    /\ UNCHANGED <<date_range, anums, caseIdx, rows, inflight, report>>
    /\ UNCHANGED calVars
    /\ UNCHANGED fnVars

\* lines 248-257 raise for another reason (the rename is refused, ...)
RowProcessFails ==
    /\ pc = "poll"
    /\ NewFiles # {}
    /\ RowError
    /\ UNCHANGED <<date_range, anums, caseIdx, rows, dir, inflight, log_rows, report>>
    /\ UNCHANGED calVars
    /\ UNCHANGED fnVars

\* the loop over rows is over: download_case_docs returns
CaseDone ==
    /\ pc = "rows"
    /\ rowIdx = rows
    /\ pc' = "case_loop"
    /\ UNCHANGED <<date_range, anums, report>>
    /\ UNCHANGED calVars
    /\ UNCHANGED caseVars
    /\ UNCHANGED fnVars

\* after the last case: df = pd.DataFrame(log_rows); df.to_excel(...)
WriteReport ==
    /\ pc = "case_loop"
    /\ caseIdx = Len(anums)
    /\ report' = [written |-> TRUE, rows |-> log_rows]
    /\ pc' = "done"
    /\ UNCHANGED <<date_range, anums>>
    /\ UNCHANGED calVars
    /\ UNCHANGED caseVars
    /\ UNCHANGED fnVars

-----------------------------------------------------------------------------
(* The run                                                                 *)

FnIdle ==
    /\ fn_pc = "idle"
    /\ fn_arg = <<>>
    /\ fn_ret = <<>>

MainIdle ==
    /\ months_checked = 0
    /\ cells = 0
    /\ a_numbers = {}
    /\ popups = {}
    /\ advances = 0
    /\ stop = ""
    /\ cell_error = ""
    /\ anums = <<>>
    /\ caseIdx = 0
    /\ rows = 0
    /\ rowIdx = 0
    /\ cur = NoRow
    /\ before = {}
    /\ dir = {}
    /\ inflight = {}
    /\ log_rows = <<>>
    /\ warnings = <<>>
    /\ outcomes = <<>>
    /\ report = [written |-> FALSE, rows |-> <<>>]

\* main after scraper.login: the dates typed at the prompts are parsed
Init ==
    /\ pc = "start"
    /\ \E r \in RangeInputs :
        date_range = <<strptime(r[1], FmtISO), strptime(r[2], FmtISO)>>
    /\ MainIdle
    /\ FnIdle

Next ==
    \/ GotoCalendar
    \/ GotoCalendarFails
    \/ MonthBegin
    \/ MonthLoopEnds
    \/ CellPopupRead
    \/ CellCloseFails
    \/ CellFails
    \/ NextMonthClicked
    \/ NextMonthFails
    \/ BeginHarvest
    \/ NextCase
    \/ OpenCase
    \/ OpenCaseFails
    \/ RowReadFails
    \/ RowNoButton
    \/ RowClick
    \/ DownloadLands
    \/ PollTimeout
    \/ RowProcess
    \/ RowProcessFails
    \/ CaseDone
    \/ WriteReport

Spec == Init /\ [][Next]_vars

\* iterate_hearings_collect_anums alone: one call, from main's prompts to
\* its return (or to the exception goto_calendar lets out)
TraversalNext ==
    \/ GotoCalendar
    \/ GotoCalendarFails
    \/ MonthBegin
    \/ MonthLoopEnds
    \/ CellPopupRead
    \/ CellCloseFails
    \/ CellFails
    \/ NextMonthClicked
    \/ NextMonthFails

SpecTraversal == Init /\ [][TraversalNext]_vars

\* The one thread of the program keeps running: every browser call of the
\* traversal returns or raises (the waits have a timeout), so a step that
\* can be taken is taken.
SpecTraversalFair == SpecTraversal /\ WF_vars(TraversalNext)

\* download_case_docs for each case, alone: main from the return of the
\* traversal to the report, for the lists of cases a traversal can return
CaseLists ==
    {sorted(S) : S \in SUBSET {<<"1","2","3","4","5","6","7","8","9">>,
                               <<"9","8","7","6","5","4","3","2","1">>}}

HarvestInit ==
    /\ pc = "cal_returned"
    /\ \E r \in RangeInputs :
        date_range = <<strptime(r[1], FmtISO), strptime(r[2], FmtISO)>>
    /\ \E list \in CaseLists :
        /\ anums = list
        /\ a_numbers = Range(list)
    /\ months_checked = 1
    /\ cells = 0
    /\ popups = {}
    /\ advances = 0
    /\ stop = "next_failed"
    /\ cell_error = ""
    /\ caseIdx = 0
    /\ rows = 0
    /\ rowIdx = 0
    /\ cur = NoRow
    /\ before = {}
    /\ dir = {}
    /\ inflight = {}
    /\ log_rows = <<>>
    /\ warnings = <<>>
    /\ outcomes = <<>>
    /\ report = [written |-> FALSE, rows |-> <<>>]
    /\ FnIdle

HarvestNext ==
    \/ BeginHarvest
    \/ NextCase
    \/ OpenCase
    \/ OpenCaseFails
    \/ RowReadFails
    \/ RowNoButton
    \/ RowClick
    \/ DownloadLands
    \/ PollTimeout
    \/ RowProcess
    \/ RowProcessFails
    \/ CaseDone
    \/ WriteReport

SpecHarvest == HarvestInit /\ [][HarvestNext]_vars

-----------------------------------------------------------------------------
(* guess_pleading_name_from_text applied to texts of a few lines            *)

\* Lines a first page may hold.
GuessLinePool ==
    << <<"C","a","s","e"," ","N","o","."," ","1","2","3">>,
       <<"M","O","T","I","O","N"," ","T","O"," ","C","O","N","T","I","N","U","E">>,
       <<"f","i","l","e","d"," ","b","y"," ","r","e","s","p","o","n","d","e","n","t">>,
       <<"a","n"," ","o","r","d","e","r"," ","w","a","s"," ","e","n","t","e","r","e","d">>,
       <<"1","2","3","4","5","6","7","8">>,
       <<"B","r","i","e","f">>,
       <<" "," ">> >>

\* a line without letters, to fill the first lines of a page
FillerLine == <<"-","-","-","-","-","-","-","-">>

\* most pool lines in one text
MaxGuessLines == 2

\* numbers of filler lines put in front of the pool lines
FillerCounts == {0, MaxLinesScanned - 1, MaxLinesScanned}

RECURSIVE Fillers(_)
Fillers(n) == IF n = 0 THEN <<>> ELSE FillerLine \o <<"\n">> \o Fillers(n - 1)

\* the texts handed to the function: n filler lines, then up to
\* MaxGuessLines pool lines, separated by "\n"
GuessInputs ==
    {Fillers(n) \o join(<<"\n">>, [i \in 1..Len(ix) |-> GuessLinePool[ix[i]]]) :
        n \in FillerCounts,
        ix \in UNION {[1..k -> 1..Len(GuessLinePool)] : k \in 0..MaxGuessLines}}

GuessInit ==
    /\ pc = "idle"
    /\ date_range = <<NoDate, NoDate>>
    /\ MainIdle
    /\ fn_pc = "guess_call"
    /\ fn_arg \in GuessInputs
    /\ fn_ret = <<>>

\* the call returns
GuessApply ==
    /\ fn_pc = "guess_call"
    /\ fn_ret' = guess_pleading_name_from_text(fn_arg)
    /\ fn_pc' = "guess_done"
    /\ UNCHANGED <<pc, date_range, anums, report, fn_arg>>
    /\ UNCHANGED calVars
    /\ UNCHANGED caseVars

SpecGuess == GuessInit /\ [][GuessApply]_vars

-----------------------------------------------------------------------------
(* extract_relevant_dates_text applied to texts of a few sentences         *)

\* Sentences a first page may hold.
DatePhrasePool ==
    <<
       \* "Hearing set for March 5, 2024"
       <<"H","e","a","r","i","n","g"," ","s","e","t"," ","f","o","r"," ","M","a","r","c","h"," ","5",","," ","2","0","2","4">>,
       \* "deadline is set for 3/10/2024"
       <<"d","e","a","d","l","i","n","e"," ","i","s"," ","s","e","t"," ","f","o","r"," ","3","/","1","0","/","2","0","2","4">>,
       \* "deadline set on 3/10/24"
       <<"d","e","a","d","l","i","n","e"," ","s","e","t"," ","o","n"," ","3","/","1","0","/","2","4">>,
       \* "master hearing on 3/5/2024"
       <<"m","a","s","t","e","r"," ","h","e","a","r","i","n","g"," ","o","n"," ","3","/","5","/","2","0","2","4">>,
       \* "documents are due on April 1, 2024"
       <<"d","o","c","u","m","e","n","t","s"," ","a","r","e"," ","d","u","e"," ","o","n"," ","A","p","r","i","l"," ","1",","," ","2","0","2","4">>,
       \* "hearing is set on Sept 5, 2024"
       <<"h","e","a","r","i","n","g"," ","i","s"," ","s","e","t"," ","o","n"," ","S","e","p","t"," ","5",","," ","2","0","2","4">>,
       \* "Briefs due by 4/1/2024"
       <<"B","r","i","e","f","s"," ","d","u","e"," ","b","y"," ","4","/","1","/","2","0","2","4">>,
       \* "individual hearing on 03/05/2024."
       <<"i","n","d","i","v","i","d","u","a","l"," ","h","e","a","r","i","n","g"," ","o","n"," ","0","3","/","0","5","/","2","0","2","4",".">> >>

\* most pool sentences in one text
MaxDatePhrases == 2

\* the texts handed to the function: up to MaxDatePhrases pool sentences,
\* one per line
DatesInputs ==
    {join(<<"\n">>, [i \in 1..Len(ix) |-> DatePhrasePool[ix[i]]]) :
        ix \in UNION {[1..k -> 1..Len(DatePhrasePool)] : k \in 0..MaxDatePhrases}}

DatesInit ==
    /\ pc = "idle"
    /\ date_range = <<NoDate, NoDate>>
    /\ MainIdle
    /\ fn_pc = "dates_call"
    /\ fn_arg \in DatesInputs
    /\ fn_ret = <<>>

\* the call returns
DatesApply ==
    /\ fn_pc = "dates_call"
    /\ fn_ret' = extract_relevant_dates_text(fn_arg)
    /\ fn_pc' = "dates_done"
    /\ UNCHANGED <<pc, date_range, anums, report, fn_arg>>
    /\ UNCHANGED calVars
    /\ UNCHANGED caseVars

SpecDates == DatesInit /\ [][DatesApply]_vars

-----------------------------------------------------------------------------
(* build_new_filename applied to the cells of a row and what was read from *)
(* its file                                                                *)

\* label cells: "", "Order", "?", "Exhibit A/B"
NameLabels ==
    { <<>>, <<"O","r","d","e","r">>,
      <<"?">>, <<"E","x","h","i","b","i","t"," ","A","/","B">> }

\* pleading names: "", "NOTICE OF HEARING", "RE: MOTION TO REOPEN"
NamePleadings ==
    { <<>>, <<"N","O","T","I","C","E"," ","O","F"," ","H","E","A","R","I","N","G">>,
      <<"R","E",":"," ","M","O","T","I","O","N"," ","T","O"," ","R","E","O","P","E","N">> }

\* date cells: "", "2024-03-05", "March 5, 2024", "3/5/24x"
NameDates ==
    { <<>>, <<"2","0","2","4","-","0","3","-","0","5">>,
      <<"M","a","r","c","h"," ","5",","," ","2","0","2","4">>,
      <<"3","/","5","/","2","4","x">> }

\* notes: "", "HEARING 03-05-2024 ; DUE 04-01-2024"
NameNotes ==
    { <<>>, <<"H","E","A","R","I","N","G"," ","0","3","-","0","5","-","2","0","2","4"," ",";"," ","D","U","E"," ","0","4","-","0","1","-","2","0","2","4">> }

\* the arguments handed to the function
NameInputs == NameLabels \X NamePleadings \X NameDates \X NameNotes

NameInit ==
    /\ pc = "idle"
    /\ date_range = <<NoDate, NoDate>>
    /\ MainIdle
    /\ fn_pc = "name_call"
    /\ fn_arg \in NameInputs
    /\ fn_ret = <<>>

\* the call returns
NameApply ==
    /\ fn_pc = "name_call"
    /\ fn_ret' = build_new_filename(fn_arg[1], fn_arg[2], fn_arg[3], fn_arg[4])
    /\ fn_pc' = "name_done"
    /\ UNCHANGED <<pc, date_range, anums, report, fn_arg>>
    /\ UNCHANGED calVars
    /\ UNCHANGED caseVars

SpecName == NameInit /\ [][NameApply]_vars

-----------------------------------------------------------------------------
(* Properties                                                              *)

\* the rows that were logged, in the order they ended
LoggedRows == SelectSeq(outcomes, LAMBDA o : o.how = "ok")

\* C1: every record's final filename names a file of the output directory,
\* and no two records have the same final filename, whatever mix of
\* downloads, timeouts and row errors the run has seen.
C1_FilenamesExistAndUnique ==
    /\ \A i \in 1..Len(log_rows) : log_rows[i].filename \in Names(dir)
    /\ \A i, j \in 1..Len(log_rows) :
            i # j => log_rows[i].filename # log_rows[j].filename

\* C1, witness: two records whose candidate name was the same, in a run
\* that also had a row time out and a row raise.
C1_Witness ==
    /\ Len(log_rows) = 2
    /\ LoggedRows[1].newname = LoggedRows[2].newname
    /\ \E i \in 1..Len(outcomes) : outcomes[i].how \in {"timeout", "error"}

\* the run has ended: the report was written, or an exception left main
Halted == pc \in {"done", "crashed"}

\* C2: once the harvest of the cases has begun the run completes: when it
\* has ended every case was visited and the report holds the records
\* gathered, whatever failed while a case was harvested.
C2_RunCompletes ==
    (Halted /\ caseIdx >= 1) =>
        /\ caseIdx = Len(anums)
        /\ report.written
        /\ report.rows = log_rows

\* rows of case c that have ended so far
RowsEnded(c) == {outcomes[i].row : i \in {k \in 1..Len(outcomes) : outcomes[k].case = c}}

\* C3: a row whose download does not appear gives no record and does not
\* stop the rows after it: the records are exactly those of the rows that
\* were downloaded and processed, one per row, in row order, and every row
\* of a case is visited.
C3_TimeoutSkipsOnlyItsRow ==
    /\ Len(log_rows) = Len(LoggedRows)
    /\ \A k \in 1..Len(log_rows) :
        /\ log_rows[k].filename = LoggedRows[k].final
        /\ log_rows[k].anumber = anums[LoggedRows[k].case]
    /\ \A i, j \in 1..Len(outcomes) :
            i < j => \/ outcomes[i].case < outcomes[j].case
                     \/ /\ outcomes[i].case = outcomes[j].case
                        /\ outcomes[i].row < outcomes[j].row
    /\ (pc \in {"rows", "poll", "case_loop"} /\ caseIdx >= 1) =>
            RowsEnded(caseIdx) = 1..rowIdx
    /\ (pc = "case_loop" /\ caseIdx >= 1) => rowIdx = rows

\* C3, witness: a case of three rows, row 2 timed out, two records.
C3_Witness ==
    /\ pc = "case_loop"
    /\ Len(outcomes) = 3
    /\ outcomes[1].how = "ok" /\ outcomes[2].how = "timeout" /\ outcomes[3].how = "ok"
    /\ outcomes[1].case = outcomes[3].case
    /\ Len(log_rows) = 2

\* C4: every row skipped because its download did not appear has a warning.
C4_TimeoutWarns ==
    \A i \in 1..Len(outcomes) :
        outcomes[i].how = "timeout" =>
            <<outcomes[i].case, outcomes[i].row>> \in Range(warnings)

\* C5: the traversal visits at most 60 pages and advances at most 60 times,
\* and it ends, whatever the cells do and even when the next control
\* succeeds every time.
C5_TraversalBounded ==
    /\ [](months_checked <= 60 /\ advances <= 60)
    /\ <>(pc \in {"cal_returned", "crashed"})

\* C5, witness: the next control succeeded every time and the traversal
\* returned after 60 pages.
C5_Witness ==
    /\ pc = "cal_returned"
    /\ stop = "bound"
    /\ months_checked = 60
    /\ advances = 60

\* a date as one number
DateKey(d) == d[1] * 10000 + d[2] * 100 + d[3]

\* the popup's Hearing Date is missing or malformed, or lies in the range
DateAdmits(text) ==
    \/ popup_dt[text] = NoDate
    \/ /\ DateKey(start_date) <= DateKey(popup_dt[text])
       /\ DateKey(popup_dt[text]) <= DateKey(end_date)

\* the identifiers matched in a popup text
IdsIn(text) == {StripNonDigits(a) : a \in Range(popup_anums[text])}

\* C6: the identifiers returned are exactly those matched in a visited popup
\* whose date lies in the range (ends included) or cannot be parsed.
C6_ReturnedIffInRange ==
    pc = "cal_returned" =>
        Range(anums) = UNION {IdsIn(t) : t \in {p \in popups : DateAdmits(p)}}

\* C6, witness: a popup dated before the range and a popup with a date that
\* cannot be parsed, both naming a case; the case is returned.
C6_Witness ==
    /\ pc = "cal_returned"
    /\ \E p \in popups : ~DateAdmits(p) /\ IdsIn(p) # {}
    /\ \E p \in popups : popup_dt[p] = NoDate /\ IdsIn(p) # {}
    /\ anums # <<>>

\* C7: the identifiers returned hold no duplicate, and each is nine
\* characters, all of them digits.
C7_NineDigitsNoDuplicates ==
    pc = "cal_returned" =>
        /\ \A i, j \in 1..Len(anums) : i # j => anums[i] # anums[j]
        /\ \A i \in 1..Len(anums) :
            /\ Len(anums[i]) = 9
            /\ \A k \in 1..Len(anums[i]) : anums[i][k] \in Digits

\* C8: when the next control cannot be used after page k the traversal
\* returns, without visiting another page and without raising, the
\* identifiers gathered so far.
C8_NoNextReturns ==
    [][(pc = "cells" /\ cells = 0 /\ advances' = advances) =>
            /\ pc' = "cal_returned"
            /\ months_checked' = months_checked
            /\ Range(anums') = a_numbers
            /\ Len(anums') = Cardinality(a_numbers)]_vars

\* C8, witness: the start page had no next control and the identifier of
\* that page is returned.
C8_Witness ==
    /\ pc = "cal_returned"
    /\ stop = "next_failed"
    /\ months_checked = 1
    /\ anums # <<>>

\* the number of rows logged up to the i-th whose candidate name was the
\* candidate name of the i-th
RankOf(i) ==
    Cardinality({k \in 1..i : LoggedRows[k].newname = LoggedRows[i].newname})

\* C9: the k-th document with candidate name X.pdf, k >= 2, is stored as
\* X (k).pdf.
C9_SuffixIsRank ==
    \A i \in 1..Len(LoggedRows) :
        RankOf(i) >= 2 =>
            LoggedRows[i].final =
                stem(LoggedRows[i].newname) \o <<" ", "(">> \o str(RankOf(i))
                    \o <<")">> \o suffix(LoggedRows[i].newname)

\* among the first 60 of the lines, those of length 8 or more that hold a
\* letter
QualifyingAmong(lines) ==
    {lines[k] : k \in {j \in 1..Len(lines) :
                        /\ j <= 60
                        /\ Len(lines[j]) >= 8
                        /\ \E c \in Range(lines[j]) : c \in UpperLetters \cup LowerLetters}}

\* the qualifying lines of a text
QualifyingLines(text) == QualifyingAmong(NonBlankLines(text))

\* C10: when some line qualifies, the result is one of the qualifying lines.
C10_ResultQualifies ==
    fn_pc = "guess_done" =>
        \A q \in {QualifyingLines(fn_arg)} : q # {} => fn_ret \in q

\* the text of the two sentences "Hearing set for March 5, 2024" and
\* "deadline is set for 3/10/2024", one per line
C11_Text == DatePhrasePool[1] \o <<"\n">> \o DatePhrasePool[2]

\* C11: on the text with "Hearing set for March 5, 2024" and "deadline is
\* set for 3/10/2024" the result is exactly
\* "HEARING 03-05-2024 ; DEADLINE 03-10-2024".
C11_ExampleResult ==
    (fn_pc = "dates_done" /\ fn_arg = C11_Text) =>
        fn_ret = <<"H","E","A","R","I","N","G"," ","0","3","-","0","5","-","2","0","2","4"," ",";"," ","D","E","A","D","L","I","N","E"," ","0","3","-","1","0","-","2","0","2","4">>

\* the four components as they go into the name: label, pleading name and
\* notes with the reserved characters replaced, the date normalised
Cleaned(arg) ==
    <<sanitize(arg[1]), sanitize(arg[2]), parse_date_any(arg[3]), sanitize(arg[4])>>

\* component i, when present, behind " - " if a present component precedes it
Piece(arg, i) ==
    IF arg[i] = <<>> THEN <<>>
    ELSE (IF \E j \in 1..(i - 1) : arg[j] # <<>> THEN <<" ", "-", " ">> ELSE <<>>)
         \o Cleaned(arg)[i]

\* the present components in the order label, pleading name, date, notes
Joined(arg) == Piece(arg, 1) \o Piece(arg, 2) \o Piece(arg, 3) \o Piece(arg, 4)

\* C12, as claimed: the name is the present components joined, followed by
\* ".pdf", and the placeholder with ".pdf" when all four are empty.
C12_JoinedOrAllEmpty ==
    fn_pc = "name_done" =>
        fn_ret = (IF \A i \in 1..4 : fn_arg[i] = <<>> THEN Placeholder
                  ELSE Joined(fn_arg)) \o <<".", "p", "d", "f">>

\* C12, amended: the name is the present components joined, followed by
\* ".pdf", and the placeholder with ".pdf" when the joined name is empty
\* (all four are empty, or what is present is emptied by sanitising).
C12_JoinedOrPlaceholder ==
    fn_pc = "name_done" =>
        fn_ret = (IF Joined(fn_arg) = <<>> THEN Placeholder
                  ELSE Joined(fn_arg)) \o <<".", "p", "d", "f">>

\* C12, witness: all four components are present and the name was built.
C12_Witness ==
    /\ fn_pc = "name_done"
    /\ \A i \in 1..4 : fn_arg[i] # <<>>
    /\ fn_ret # Placeholder \o Extension

\* / \ : * ? " < > |
ReservedChars == {"/", "\\", ":", "*", "?", "\"", "<", ">", "|"}

\* C17: the name computed holds no path separator and no reserved character,
\* whatever the label, pleading name, date string and notes.
C17_NoReservedChars ==
    fn_pc = "name_done" => \A i \in 1..Len(fn_ret) : fn_ret[i] \notin ReservedChars

\* this step ends a row in the handler of the row's try
RowRaised ==
    /\ Len(outcomes') = Len(outcomes) + 1
    /\ outcomes'[Len(outcomes')].how = "error"

CellRaised ==
    /\ pc = "cells"
    /\ cells' = cells - 1
    /\ cell_error' # ""

\* once a cell has raised, the page's remaining cells are done and the
\* advance is attempted: it succeeds or ends the traversal
AdvanceAttempted ==
    [](((pc = "cells") /\ (cell_error # "")) => <>(pc \in {"month_loop", "cal_returned"}))

\* C14, as claimed: whatever step of a cell fails, the set of identifiers is
\* as it was before the cell, the next cell of the page is visited, and the
\* advance to the next page is still attempted.
C14_FailedCellChangesNothing ==
    /\ [][CellRaised =>
            /\ a_numbers' = a_numbers
            /\ pc' = "cells"
            /\ months_checked' = months_checked
            /\ advances' = advances]_vars
    /\ AdvanceAttempted

\* C14, amended: when a cell fails before its popup is read (the popup does
\* not appear) the set of identifiers is as it was before the cell; when it
\* fails after its identifiers were collected (the popup cannot be closed)
\* the set keeps them and loses nothing; either way the next cell of the
\* page is visited and the advance to the next page is still attempted.
C14_FailedCellSkipsOnlyItself ==
    /\ [][CellRaised =>
            /\ cell_error' = "before_read" => a_numbers' = a_numbers
            /\ a_numbers \subseteq a_numbers'
            /\ pc' = "cells"
            /\ months_checked' = months_checked
            /\ advances' = advances]_vars
    /\ AdvanceAttempted

\* C14, witness: identifiers were gathered, then the popup of a cell did not
\* appear, and a cell of the same page is still to be visited.
C14_Witness ==
    /\ pc = "cells"
    /\ cell_error = "before_read"
    /\ a_numbers # {}
    /\ cells > 0

\* C15: the file renamed and logged for a row is the file the row's own click
\* started, never the late download of an earlier row.
C15_OwnDownloadOnly ==
    [][Len(log_rows') > Len(log_rows) =>
            \A f \in dir \ dir' : f.name = RawName(caseIdx, rowIdx + 1)]_vars

\* C16: when the run has harvested every case, each file of the output
\* directory carries its final name and is the file of exactly one record.
C16_EveryFileLogged ==
    pc = "done" =>
        \A f \in dir :
            Cardinality({k \in 1..Len(log_rows) : log_rows[k].filename = f.name}) = 1

\* the label holds the letters o, r, d, e, r in a row, in either case
HasOrderToken(label) ==
    \E i \in 1..Len(label) :
        /\ i + 4 <= Len(label)
        /\ label[i] \in {"O", "o"}
        /\ label[i + 1] \in {"R", "r"}
        /\ label[i + 2] \in {"D", "d"}
        /\ label[i + 3] \in {"E", "e"}
        /\ label[i + 4] \in {"R", "r"}

\* the name of a file with label, pleading name and date, and no notes
NameWithoutNotes ==
    [c \in {r.label : r \in RowPool} \X {pleading_name[t] : t \in RowTexts}
            \X {r.file_date : r \in RowPool} |->
        Joined(<<c[1], c[2], c[3], <<>> >>) \o <<".", "p", "d", "f">>] @@ <<>>

\* C18: a record has a note only if its row's label holds "ORDER" in either
\* case; for every other row the note is empty and the name computed for
\* the file has no notes component, whatever the text of the file holds.
C18_NotesOnlyForOrderRows ==
    \A k \in 1..Len(log_rows) :
        \A r \in {log_rows[k]} :
            /\ r.notes # <<>> => HasOrderToken(r.label)
            /\ ~HasOrderToken(r.label) =>
                /\ r.notes = <<>>
                /\ LoggedRows[k].newname =
                        NameWithoutNotes[<<r.label, r.pleading, r.file_date>>]

\* C18, witness: a record of a row labelled "Motion" whose file holds a
\* deadline sentence, without note, and a record of a row labelled "Order"
\* with a note.
C18_Witness ==
    /\ \E k \in 1..Len(log_rows) :
        /\ ~HasOrderToken(log_rows[k].label)
        /\ log_rows[k].pleading = pleading_name[PdfPages.motion]
        /\ extract_relevant_dates_text(PdfPages.motion) # <<>>
        /\ log_rows[k].notes = <<>>
    /\ \E k \in 1..Len(log_rows) :
        /\ HasOrderToken(log_rows[k].label)
        /\ log_rows[k].notes # <<>>

\* identifier a comes before identifier b: at the first place where they
\* differ a has the smaller digit (or a ends there)
IdBefore(a, b) ==
    \E k \in 1..Len(b) :
        /\ \A j \in 1..(k - 1) : j <= Len(a) /\ a[j] = b[j]
        /\ k = Len(a) + 1 \/ (k <= Len(a) /\ DigitVal[a[k]] < DigitVal[b[k]])

\* main is in the traversal
InTraversal == pc \in {"start", "month_loop", "cells"}

\* C19: the traversal is over before any case is harvested; the cases are
\* harvested one at a time in ascending order of identifier; the log only
\* grows at its end; and what the report writer gets after the last case is
\* the log, ordered by case identifier and, within a case, by row.
C19_TraverseThenHarvestInOrder ==
    /\ []((caseIdx >= 1 \/ log_rows # <<>> \/ outcomes # <<>>) => ~InTraversal)
    /\ [][~InTraversal => anums' = anums]_vars
    /\ [](~InTraversal => \A i, j \in 1..Len(anums) : i < j => IdBefore(anums[i], anums[j]))
    /\ [][caseIdx' # caseIdx =>
            /\ pc \in {"cal_returned", "case_loop"}
            /\ caseIdx' = (IF pc = "cal_returned" THEN 0 ELSE caseIdx + 1)]_vars
    /\ [][/\ Len(log_rows') >= Len(log_rows)
          /\ Len(log_rows') <= Len(log_rows) + 1
          /\ \A k \in 1..Len(log_rows) : log_rows'[k] = log_rows[k]]_vars
    /\ [](pc = "done" =>
            /\ report.written
            /\ report.rows = log_rows
            /\ caseIdx = Len(anums)
            /\ Len(log_rows) = Len(LoggedRows)
            /\ \A i, j \in 1..Len(log_rows) :
                i < j =>
                    \/ IdBefore(log_rows[i].anumber, log_rows[j].anumber)
                    \/ /\ log_rows[i].anumber = log_rows[j].anumber
                       /\ LoggedRows[i].row < LoggedRows[j].row)

\* C19, witness: two cases, two records of the first and one of the second,
\* handed to the report writer.
C19_Witness ==
    /\ pc = "done"
    /\ Len(anums) = 2
    /\ Len(report.rows) = 3
    /\ report.rows[1].anumber = anums[1]
    /\ report.rows[2].anumber = anums[1]
    /\ report.rows[3].anumber = anums[2]

\* the pieces of s between the separators " ; " (none for the empty string)
RECURSIVE SplitOnSemicolon(_)
SplitOnSemicolon(s) ==
    IF s = <<>> THEN <<>>
    ELSE LET at == {i \in 1..Len(s) : OccursAt(<<" ", ";", " ">>, s, i)}
         IN  IF at = {} THEN <<s>>
             ELSE LET i == CHOOSE a \in at : \A b \in at : a <= b
                  IN  <<Slice(s, 1, i - 1)>> \o SplitOnSemicolon(Slice(s, i + 3, Len(s)))

\* place of a finding's label in the pattern list: HEARING, DUE, DEADLINE
LabelRank(f) ==
    IF OccursAt(LabelHEARING \o <<" ">>, f, 1) THEN 1
    ELSE IF OccursAt(LabelDUE \o <<" ">>, f, 1) THEN 2
    ELSE IF OccursAt(LabelDEADLINE \o <<" ">>, f, 1) THEN 3
    ELSE 0

\* where f occurs first in the sequence fs
FirstIndex(fs, f) == CHOOSE i \in 1..Len(fs) : fs[i] = f /\ \A j \in 1..(i - 1) : fs[j] # f

\* the statement of C20 for the result ret, its pieces ps, and the findings
\* fs in the order they are made (pattern by pattern, each along the text)
DedupedInOrder(ret, ps, fs) ==
    /\ \A i, j \in 1..Len(ps) : i # j => ps[i] # ps[j]
    /\ Range(ps) = Range(fs)
    /\ \A i, j \in 1..Len(ps) : i < j => FirstIndex(fs, ps[i]) < FirstIndex(fs, ps[j])
    /\ \A i, j \in 1..Len(ps) :
            i < j => LabelRank(ps[i]) >= 1 /\ LabelRank(ps[i]) <= LabelRank(ps[j])
    /\ (fs = <<>>) <=> (ret = <<>>)

\* C20: the result holds each finding once, in the order of first
\* occurrence (pattern-list order, then position in the text), joined by
\* " ; ", and is empty when nothing matches or the text is empty; a deadline
\* sentence before a hearing sentence gives the hearing first.
C20_DedupedInOccurrenceOrder ==
    fn_pc = "dates_done" =>
        /\ DedupedInOrder(fn_ret, SplitOnSemicolon(fn_ret), Findings(fn_arg, 1))
        /\ fn_arg = <<>> => fn_ret = <<>>
        /\ fn_arg = DatePhrasePool[3] \o <<"\n">> \o DatePhrasePool[1] =>
                fn_ret = <<"H","E","A","R","I","N","G"," ","0","3","-","0","5","-","2","0","2","4"," ",";"," ","D","E","A","D","L","I","N","E"," ","0","3","-","1","0","-","2","0","2","4">>

\* C20, witness: two sentences matched by different patterns give the same
\* finding, and the result holds it once.
C20_Witness ==
    /\ fn_pc = "dates_done"
    /\ fn_arg = DatePhrasePool[4] \o <<"\n">> \o DatePhrasePool[1]
    /\ Len(Findings(fn_arg, 1)) = 2
    /\ fn_ret = <<"H","E","A","R","I","N","G"," ","0","3","-","0","5","-","2","0","2","4">>

====
